---- MODULE Spec2Model ----
(***************************************************************************)
(* Model of the iiko synchronisation router (src/routers/iiko/sync.py):    *)
(* the /sales and /transactions handlers with their day-by-day window      *)
(* loop, and the composite /organizations-employees-terminals handler.     *)
(*                                                                         *)
(* Each request handler is a coroutine; its position is pc[r].  A step of  *)
(* the model is the code between two awaits.  Calls into iiko_sync are     *)
(* split into the call being issued and the call returning or raising.     *)
(* Spec runs one handler, ConcurrentSpec two of them side by side, and     *)
(* FairSpec is Spec with the event loop's scheduling.                      *)
(*                                                                         *)
(* The record normalizer (src/services/iiko/iiko_parser.py) is modelled    *)
(* as operators on Python values: ParserSpec applies the coercion          *)
(* functions and the modifier flattening to bounded arguments,             *)
(* NormalizerSpec the list normalizers, with the clock they read.          *)
(* StoreSpec is the fetch and upsert behind one per-day sync call.         *)
(***************************************************************************)
EXTENDS Integers, Sequences, FiniteSets, TLC

VARIABLES
    clock,        \* datetime.now(): [day, tod]
    pc,           \* position of each handler coroutine
    endpoint,     \* which handler the request runs
    req,          \* the request's from_date / to_date query parameters, as received
    from_date,    \* local from_date (reassigned by the defaults, lines 474-475)
    to_date,      \* local to_date   (reassigned by the defaults, lines 476-477)
    result,       \* local result dict of the handler
    current_date, \* loop variable current_date
    end_date,     \* end_date
    calls,        \* history: the (day_from, day_to) windows passed to iiko_sync
    results,      \* history: the outcomes of the per-window calls, as a bag
    inflight,     \* the iiko_sync calls a handler has issued and not yet got back
    post,         \* history of the steps around the loop (accounts, cache, indexes)
    started,      \* composite run: the entity syncs started, in order
    ent_results,  \* composite run: the local results dict
    response,     \* what the handler answered
    fn,           \* parser / store: the function applied last
    arg,          \* its argument
    out,          \* what it returned, or the exception it raised
    prev,         \* the call before it: [fn, arg, out]
    source,       \* the vendor's records of each day
    store         \* the rows of the local store

\* The variables of the parser and of the store: the router leaves them alone.
pvars == <<fn, arg, out, prev, source, store>>

\* The variables of the router: the parser leaves them alone.
rvars == <<pc, endpoint, req, from_date, to_date, result,
           current_date, end_date, calls, results, inflight, post, started,
           ent_results, response>>

vars == <<clock, pc, endpoint, req, from_date, to_date, result,
          current_date, end_date, calls, results, inflight, post, started,
          ent_results, response, fn, arg, out, prev, source, store>>

(***************************************************************************)
(* Bounds                                                                  *)
(***************************************************************************)
MaxDay == 1        \* explicit from_date / to_date lie on days 0..MaxDay
MaxClockDay == 1   \* the clock runs from day 0 to day MaxClockDay

(***************************************************************************)
(* Program constants                                                       *)
(***************************************************************************)
DefaultDays == 7   \* timedelta(days=7)

Procs == {1, 2}    \* request handlers that may exist
Solo == {1}        \* the handler that runs in Spec

(***************************************************************************)
(* Values                                                                  *)
(***************************************************************************)
\* Times of day: 0 is 00:00:00 (datetime.min.time()), 1 is some later time.
MinTime == 0
TimesOfDay == {0, 1}

DateTime(d, t) == [day |-> d, tod |-> t]

\* Query parameter strings.  "none" is an omitted parameter (None), "bad" a
\* string datetime.fromisoformat rejects, "iso" an ISO timestamp.
NoneArg == [s |-> "none", day |-> 0, tod |-> 0]
BadStr == [s |-> "bad", day |-> 0, tod |-> 0]
IsoStr(d, t) == [s |-> "iso", day |-> d, tod |-> t]

DateArgs == {NoneArg, BadStr} \cup {IsoStr(d, t) : d \in 0..MaxDay, t \in TimesOfDay}

Keys == {"created", "updated", "errors", "deleted"}

\* dict.get(key, 0)
Get(d, k) == IF k \in DOMAIN d THEN d[k] ELSE 0

ZeroResult == [created |-> 0, updated |-> 0, errors |-> 0, deleted |-> 0]

Null == [null |-> TRUE]
NoResponse == [kind |-> "none", success |-> FALSE, data |-> Null]

\* Dicts an iiko_sync.sync_* coroutine returns.
ResultDicts ==
    { [created |-> 1, updated |-> 2, errors |-> 0, deleted |-> 1],
      [created |-> 0, updated |-> 0, errors |-> 1] }

Returned(d) == [raised |-> FALSE, value |-> d]
Raised == [raised |-> TRUE, value |-> Null]

\* What awaiting an iiko_sync.sync_* coroutine can give: a dict, or an exception.
SyncOutcomes == {Returned(d) : d \in ResultDicts} \cup {Raised}

\* A bag of outcomes: outcome -> how many calls ended with it.
NoOutcomes == [o \in {} |-> 0]
Count(b, o) == IF o \in DOMAIN b THEN b[o] ELSE 0
Record(b, o) == [x \in DOMAIN b \cup {o} |-> IF x = o THEN Count(b, o) + 1 ELSE b[x]]

PostOutcomes == {"ok", "failed"}
NoPost == [accounts |-> "none", finalizing |-> FALSE, cache |-> "none", optimize |-> "none"]

EntityOrder == <<"organizations", "employees", "terminals">>
NoEntityResults == [e \in {} |-> Null]

(***************************************************************************)
(* Date handling                                                           *)
(***************************************************************************)
\* dt - timedelta(days=n)
MinusDays(dt, n) == DateTime(dt.day - n, dt.tod)

\* dt.strftime("%Y-%m-%d") + "T00:00:00.000": the time of day is dropped.
StrftimeMidnight(dt) == IsoStr(dt.day, MinTime)

\* (datetime.now() - timedelta(days=7)).strftime("%Y-%m-%d") + "T00:00:00.000"
DefaultFromDate(now) == StrftimeMidnight(MinusDays(now, DefaultDays))

\* datetime.now().strftime("%Y-%m-%d") + "T00:00:00.000"
DefaultToDateTomorrow(now) == StrftimeMidnight(MinusDays(now, -1))
DefaultToDate(now) == StrftimeMidnight(now)

\* datetime.fromisoformat(s) raises ValueError unless s is an ISO timestamp.
ParseOkLenient(s) == TRUE
ParseOk(s) == s.s = "iso"
FromIso(s) == DateTime(s.day, s.tod)

\* dt.date()
DateOf(dt) == dt.day

\* datetime.combine(date, datetime.min.time())
Combine(d, t) == DateTime(d, t)

(***************************************************************************)
(* Result accumulation                                                     *)
(***************************************************************************)
\* result["k"] += sync_result.get("k", 0), for the four counters
Accumulate(res, d) ==
    [created |-> res.created + Get(d, "created"),
     updated |-> res.updated + Get(d, "updated"),
     errors  |-> res.errors + Get(d, "errors"),
     deleted |-> res.deleted + Get(d, "deleted")]

\* result = {"created": 0, "updated": 0, "errors": 0, "deleted": 0}
CarriedResult(r) == result[r]
InitialResult(r) == ZeroResult

SuccessResponse(data) == [kind |-> "json", success |-> TRUE, data |-> data]
FailureResponse == [kind |-> "json", success |-> FALSE, data |-> Null]
HttpError == [kind |-> "http500", success |-> FALSE, data |-> Null]

(***************************************************************************)
(* Python values of the vendor payload (src/services/iiko/iiko_parser.py). *)
(* A value is a record tagged with its type.  A number is m / 10^e: an int *)
(* has no fraction digits, a float has frac of them.  A str is a sequence  *)
(* of characters, a dict a function from its keys, a list a sequence.      *)
(***************************************************************************)
PyNone == [ty |-> "None"]
PyBool(b) == [ty |-> "bool", bv |-> b]
PyInt(n) == [ty |-> "int", mant |-> n]
PyFloat(n, k) == [ty |-> "float", mant |-> n, frac |-> k]
PyStr(x) == [ty |-> "str", chars |-> x]
PyDict(f) == [ty |-> "dict", map |-> f]
PyList(x) == [ty |-> "list", items |-> x]
PyRaise(x) == [ty |-> "raise", exc |-> x]

\* No call yet.
NoCall == [fn |-> "none", arg |-> PyNone, out |-> PyNone]

\* The days a window can cover.
Days == 0 .. MaxDay

(***************************************************************************)
(* Initial state                                                           *)
(***************************************************************************)
Init ==
    /\ clock = DateTime(0, MinTime)
    /\ pc = [r \in Procs |-> "idle"]
    /\ endpoint = [r \in Procs |-> "none"]
    /\ req = [r \in Procs |-> [from_date |-> NoneArg, to_date |-> NoneArg]]
    /\ from_date = [r \in Procs |-> NoneArg]
    /\ to_date = [r \in Procs |-> NoneArg]
    /\ result = [r \in Procs |-> ZeroResult]
    /\ current_date = [r \in Procs |-> 0]
    /\ end_date = [r \in Procs |-> 0]
    /\ calls = [r \in Procs |-> <<>>]
    /\ results = [r \in Procs |-> NoOutcomes]
    /\ inflight = [r \in Procs |-> {}]
    /\ post = [r \in Procs |-> NoPost]
    /\ started = [r \in Procs |-> <<>>]
    /\ ent_results = [r \in Procs |-> NoEntityResults]
    /\ response = [r \in Procs |-> NoResponse]
    /\ fn = "none"
    /\ arg = PyNone
    /\ out = PyNone
    /\ prev = NoCall
    /\ source = [d \in Days |-> {}]
    /\ store = <<>>

(***************************************************************************)
(* The clock                                                               *)
(***************************************************************************)
Tick ==
    /\ clock.tod = MinTime \/ clock.day < MaxClockDay
    /\ clock' = IF clock.tod = MinTime
                THEN DateTime(clock.day, 1)
                ELSE DateTime(clock.day + 1, MinTime)
    /\ UNCHANGED <<pvars, rvars>>

(***************************************************************************)
(* A request arrives                                                       *)
(***************************************************************************)
\* FastAPI calls the handler with the query parameters; the locals of an
\* earlier call of the handler are gone (result' is left alone here only so
\* that its (re)initialisation in Begin is what the model depends on).
Request(r, ep, f, t) ==
    /\ pc[r] \in {"idle", "done"}
    /\ endpoint' = [endpoint EXCEPT ![r] = ep]
    /\ req' = [req EXCEPT ![r] = [from_date |-> f, to_date |-> t]]
    /\ from_date' = [from_date EXCEPT ![r] = f]
    /\ to_date' = [to_date EXCEPT ![r] = t]
    /\ calls' = [calls EXCEPT ![r] = <<>>]
    /\ results' = [results EXCEPT ![r] = NoOutcomes]
    /\ inflight' = [inflight EXCEPT ![r] = {}]
    /\ post' = [post EXCEPT ![r] = NoPost]
    /\ started' = [started EXCEPT ![r] = <<>>]
    /\ ent_results' = [ent_results EXCEPT ![r] = NoEntityResults]
    /\ response' = [response EXCEPT ![r] = NoResponse]
    /\ pc' = [pc EXCEPT ![r] = CASE ep = "sync_transactions" -> "accounts"
                                 [] ep = "sync_sales" -> "begin"
                                 [] OTHER -> "entity"]
    /\ current_date' = [current_date EXCEPT ![r] = 0]
    /\ end_date' = [end_date EXCEPT ![r] = 0]
    /\ UNCHANGED <<pvars, clock, result>>

RequestSales(r) ==
    \E f \in DateArgs, t \in DateArgs : Request(r, "sync_sales", f, t)

RequestTransactions(r) ==
    \E f \in DateArgs, t \in DateArgs : Request(r, "sync_transactions", f, t)

RequestComposite(r) ==
    Request(r, "sync_organizations_employees_terminals", NoneArg, NoneArg)

(***************************************************************************)
(* sync_transactions: the preliminary accounts sync                        *)
(***************************************************************************)
AccountsCall(r) ==
    /\ pc[r] = "accounts"
    /\ inflight' = [inflight EXCEPT ![r] = @ \cup {"accounts"}]
    /\ pc' = [pc EXCEPT ![r] = "accounts_wait"]
    /\ UNCHANGED <<pvars, clock, endpoint, req, from_date, to_date, result,
                   current_date, end_date, calls, results, post, started,
                   ent_results, response>>

\* The mutation: the accounts sync is awaited inside the handler's main try.
AccountsReturnNoTry(r, o) ==
    /\ pc[r] = "accounts_wait"
    /\ inflight' = [inflight EXCEPT ![r] = @ \ {"accounts"}]
    /\ post' = [post EXCEPT ![r].accounts = IF o.raised THEN "failed" ELSE "ok"]
    /\ pc' = [pc EXCEPT ![r] = IF o.raised THEN "done" ELSE "begin"]
    /\ response' = [response EXCEPT ![r] = IF o.raised THEN FailureResponse ELSE @]
    /\ UNCHANGED <<pvars, clock, endpoint, req, from_date, to_date, result,
                   current_date, end_date, calls, results, started,
                   ent_results>>

\* The except clause of lines 387-388 only logs.
AccountsReturn(r, o) ==
    /\ pc[r] = "accounts_wait"
    /\ inflight' = [inflight EXCEPT ![r] = @ \ {"accounts"}]
    /\ post' = [post EXCEPT ![r].accounts = IF o.raised THEN "failed" ELSE "ok"]
    /\ pc' = [pc EXCEPT ![r] = "begin"]
    /\ UNCHANGED <<pvars, clock, endpoint, req, from_date, to_date, result,
                   current_date, end_date, calls, results, started,
                   ent_results, response>>

(***************************************************************************)
(* sync_sales / sync_transactions: defaults, result, parsing               *)
(***************************************************************************)
Begin(r) ==
    /\ pc[r] = "begin"
    /\ LET f == IF from_date[r] = NoneArg THEN DefaultFromDate(clock) ELSE from_date[r]
           t == IF to_date[r] = NoneArg THEN DefaultToDate(clock) ELSE to_date[r]
       IN  /\ from_date' = [from_date EXCEPT ![r] = f]
           /\ to_date' = [to_date EXCEPT ![r] = t]
           /\ result' = [result EXCEPT ![r] = InitialResult(r)]
           /\ IF ParseOk(f) /\ ParseOk(t)
              THEN /\ current_date' = [current_date EXCEPT ![r] = DateOf(FromIso(f))]
                   /\ end_date' = [end_date EXCEPT ![r] = DateOf(FromIso(t))]
                   /\ pc' = [pc EXCEPT ![r] = "loop"]
                   /\ UNCHANGED response
              ELSE \* ValueError, caught by the outer except Exception
                   /\ response' = [response EXCEPT ![r] = FailureResponse]
                   /\ pc' = [pc EXCEPT ![r] = "done"]
                   /\ UNCHANGED <<current_date, end_date>>
    /\ UNCHANGED <<pvars, clock, endpoint, req, calls, results, inflight, post,
                   started, ent_results>>

(***************************************************************************)
(* The window loop                                                         *)
(***************************************************************************)
\* while current_date < end_date
LoopConditionInclusive(r) == current_date[r] <= end_date[r]
LoopCondition(r) == current_date[r] < end_date[r]

\* day_from, day_to and the call of iiko_sync.sync_sales / sync_transactions
WindowCallWholeRange(r) ==
    /\ pc[r] = "loop"
    /\ LoopCondition(r)
    /\ LET day_from == Combine(current_date[r], MinTime)
           day_to == Combine(end_date[r], MinTime)
       IN  calls' = [calls EXCEPT ![r] = Append(@, [day_from |-> day_from, day_to |-> day_to])]
    /\ inflight' = [inflight EXCEPT ![r] = @ \cup {"window"}]
    /\ pc' = [pc EXCEPT ![r] = "window_wait"]
    /\ UNCHANGED <<pvars, clock, endpoint, req, from_date, to_date, result,
                   current_date, end_date, results, post, started,
                   ent_results, response>>
\* The mutation: the next call is issued without waiting for the one in flight.
WindowCallEager(r) ==
    /\ pc[r] \in {"loop", "window_wait"}
    /\ LoopCondition(r)
    /\ LET day_from == Combine(current_date[r], MinTime)
           day_to == Combine(current_date[r] + 1, MinTime)
       IN  calls' = [calls EXCEPT ![r] = Append(@, [day_from |-> day_from, day_to |-> day_to])]
    /\ inflight' = [inflight EXCEPT ![r] = @ \cup {"window"}]
    /\ pc' = [pc EXCEPT ![r] = "window_wait"]
    /\ UNCHANGED <<pvars, clock, endpoint, req, from_date, to_date, result,
                   current_date, end_date, results, post, started,
                   ent_results, response>>

WindowCall(r) ==
    /\ pc[r] = "loop"
    /\ LoopCondition(r)
    /\ LET day_from == Combine(current_date[r], MinTime)
           day_to == Combine(current_date[r] + 1, MinTime)
       IN  calls' = [calls EXCEPT ![r] = Append(@, [day_from |-> day_from, day_to |-> day_to])]
    /\ inflight' = [inflight EXCEPT ![r] = @ \cup {"window"}]
    /\ pc' = [pc EXCEPT ![r] = "window_wait"]
    /\ UNCHANGED <<pvars, clock, endpoint, req, from_date, to_date, result,
                   current_date, end_date, results, post, started,
                   ent_results, response>>

\* The mutation: the loop does not advance current_date.
WindowReturnSameDay(r, o) ==
    /\ pc[r] = "window_wait"
    /\ inflight' = [inflight EXCEPT ![r] = @ \ {"window"}]
    /\ results' = [results EXCEPT ![r] = Record(@, o)]
    /\ IF o.raised
       THEN /\ response' = [response EXCEPT ![r] = FailureResponse]
            /\ pc' = [pc EXCEPT ![r] = "done"]
            /\ UNCHANGED result
       ELSE /\ result' = [result EXCEPT ![r] = Accumulate(@, o.value)]
            /\ pc' = [pc EXCEPT ![r] = "loop"]
            /\ UNCHANGED response
    /\ UNCHANGED <<pvars, clock, endpoint, req, from_date, to_date, end_date,
                   current_date, calls, post, started, ent_results>>

\* The awaited call returns sync_result, which is added to result, or it
\* raises, and the exception leaves the loop for the outer except Exception.
WindowReturn(r, o) ==
    /\ pc[r] = "window_wait"
    /\ inflight' = [inflight EXCEPT ![r] = @ \ {"window"}]
    /\ results' = [results EXCEPT ![r] = Record(@, o)]
    /\ IF o.raised
       THEN /\ response' = [response EXCEPT ![r] = FailureResponse]
            /\ pc' = [pc EXCEPT ![r] = "done"]
            /\ UNCHANGED <<result, current_date>>
       ELSE /\ result' = [result EXCEPT ![r] = Accumulate(@, o.value)]
            /\ current_date' = [current_date EXCEPT ![r] = @ + 1]
            /\ pc' = [pc EXCEPT ![r] = "loop"]
            /\ UNCHANGED response
    /\ UNCHANGED <<pvars, clock, endpoint, req, from_date, to_date, end_date,
                   calls, post, started, ent_results>>

\* The loop condition is false: on to the steps after the loop.
LoopExit(r) ==
    /\ pc[r] = "loop"
    /\ ~LoopCondition(r)
    /\ post' = [post EXCEPT ![r].finalizing = TRUE]
    /\ pc' = [pc EXCEPT ![r] = IF endpoint[r] = "sync_sales" THEN "invalidate" ELSE "optimize"]
    /\ UNCHANGED <<pvars, clock, endpoint, req, from_date, to_date, result,
                   current_date, end_date, calls, results, inflight, started,
                   ent_results, response>>

(***************************************************************************)
(* After the loop                                                          *)
(***************************************************************************)
\* utils.cache.invalidate_cache is fire-and-forget: a failed invalidation is
\* not raised to its caller.
InvalidateCacheRaises(o) == FALSE

\* invalidate_cache("reports"), ("analytics"), ("popular_dishes"): sync_sales only,
\* inside the outer try and outside any inner one.
InvalidateCache(r, o) ==
    /\ pc[r] = "invalidate"
    /\ post' = [post EXCEPT ![r].cache = o]
    /\ IF InvalidateCacheRaises(o)
       THEN /\ response' = [response EXCEPT ![r] = FailureResponse]
            /\ pc' = [pc EXCEPT ![r] = "done"]
       ELSE /\ pc' = [pc EXCEPT ![r] = "optimize"]
            /\ UNCHANGED response
    /\ UNCHANGED <<pvars, clock, endpoint, req, from_date, to_date, result,
                   current_date, end_date, calls, results, inflight, started,
                   ent_results>>

\* try: optimize_indexes(db) except Exception: logger.warning; then the return.
OptimizeIndexesNoTry(r, o) ==
    /\ pc[r] = "optimize"
    /\ post' = [post EXCEPT ![r].optimize = o]
    /\ response' = [response EXCEPT ![r] =
            IF o = "failed" THEN FailureResponse ELSE SuccessResponse(result[r])]
    /\ pc' = [pc EXCEPT ![r] = "done"]
    /\ UNCHANGED <<pvars, clock, endpoint, req, from_date, to_date, result,
                   current_date, end_date, calls, results, inflight, started,
                   ent_results>>
OptimizeIndexes(r, o) ==
    /\ pc[r] = "optimize"
    /\ post' = [post EXCEPT ![r].optimize = o]
    /\ response' = [response EXCEPT ![r] = SuccessResponse(result[r])]
    /\ pc' = [pc EXCEPT ![r] = "done"]
    /\ UNCHANGED <<pvars, clock, endpoint, req, from_date, to_date, result,
                   current_date, end_date, calls, results, inflight, started,
                   ent_results>>

(***************************************************************************)
(* sync_organizations_employees_terminals                                  *)
(***************************************************************************)
\* The next entity sync is called when the await of the previous one is over.
EntityCallEager(r) ==
    /\ pc[r] \in {"entity", "entity_wait"}
    /\ Len(started[r]) < Len(EntityOrder)
EntityCallEnabled(r) == pc[r] = "entity"

EntityCall(r) ==
    /\ EntityCallEnabled(r)
    /\ LET e == EntityOrder[Len(started[r]) + 1]
       IN  /\ started' = [started EXCEPT ![r] = Append(@, e)]
           /\ inflight' = [inflight EXCEPT ![r] = @ \cup {e}]
    /\ pc' = [pc EXCEPT ![r] = "entity_wait"]
    /\ UNCHANGED <<pvars, clock, endpoint, req, from_date, to_date, result,
                   current_date, end_date, calls, results, post, ent_results,
                   response>>

\* total_created, total_updated, total_errors
TotalOf(rs, k) ==
    Get(rs["organizations"], k) + Get(rs["employees"], k) + Get(rs["terminals"], k)

Summary(rs) ==
    [total_created |-> TotalOf(rs, "created"),
     total_updated |-> TotalOf(rs, "updated"),
     total_errors  |-> TotalOf(rs, "errors")]

\* The mutation: the error response carries the results obtained so far.
EntityReturnPartial(r, e, o) ==
    /\ pc[r] = "entity_wait"
    /\ e \in inflight[r]
    /\ inflight' = [inflight EXCEPT ![r] = @ \ {e}]
    /\ IF o.raised
       THEN /\ response' = [response EXCEPT ![r] =
                   [kind |-> "http500", success |-> FALSE, data |-> ent_results[r]]]
            /\ pc' = [pc EXCEPT ![r] = "done"]
            /\ UNCHANGED ent_results
       ELSE LET rs == [x \in DOMAIN ent_results[r] \cup {e} |->
                          IF x = e THEN o.value ELSE ent_results[r][x]]
            IN  /\ ent_results' = [ent_results EXCEPT ![r] = rs]
                /\ IF e = EntityOrder[Len(EntityOrder)]
                   THEN /\ response' = [response EXCEPT ![r] =
                               SuccessResponse([results |-> rs, summary |-> Summary(rs)])]
                        /\ pc' = [pc EXCEPT ![r] = "done"]
                   ELSE /\ pc' = [pc EXCEPT ![r] = "entity"]
                        /\ UNCHANGED response
    /\ UNCHANGED <<pvars, clock, endpoint, req, from_date, to_date, result,
                   current_date, end_date, calls, results, post, started>>

\* The awaited entity sync returns its dict, stored in results[...]; after the
\* third one the totals are computed and returned.  An exception goes to the
\* handler's except clause, which raises HTTPException(500).
EntityReturn(r, e, o) ==
    /\ pc[r] = "entity_wait"
    /\ e \in inflight[r]
    /\ inflight' = [inflight EXCEPT ![r] = @ \ {e}]
    /\ IF o.raised
       THEN /\ response' = [response EXCEPT ![r] = HttpError]
            /\ pc' = [pc EXCEPT ![r] = "done"]
            /\ UNCHANGED ent_results
       ELSE LET rs == [x \in DOMAIN ent_results[r] \cup {e} |->
                          IF x = e THEN o.value ELSE ent_results[r][x]]
            IN  /\ ent_results' = [ent_results EXCEPT ![r] = rs]
                /\ IF e = EntityOrder[Len(EntityOrder)]
                   THEN /\ response' = [response EXCEPT ![r] =
                               SuccessResponse([results |-> rs, summary |-> Summary(rs)])]
                        /\ pc' = [pc EXCEPT ![r] = "done"]
                   ELSE /\ pc' = [pc EXCEPT ![r] = "entity"]
                        /\ UNCHANGED response
    /\ UNCHANGED <<pvars, clock, endpoint, req, from_date, to_date, result,
                   current_date, end_date, calls, results, post, started>>

(***************************************************************************)
(* Specification: one handler at a time                                    *)
(***************************************************************************)
Next ==
    \/ Tick
    \/ \E r \in Solo : RequestSales(r)
    \/ \E r \in Solo : RequestTransactions(r)
    \/ \E r \in Solo : RequestComposite(r)
    \/ \E r \in Solo : AccountsCall(r)
    \/ \E r \in Solo, o \in {Returned(ZeroResult), Raised} : AccountsReturn(r, o)
    \/ \E r \in Solo : Begin(r)
    \/ \E r \in Solo : WindowCall(r)
    \/ \E r \in Solo, o \in SyncOutcomes : WindowReturn(r, o)
    \/ \E r \in Solo : LoopExit(r)
    \/ \E r \in Solo, o \in PostOutcomes : InvalidateCache(r, o)
    \/ \E r \in Solo, o \in PostOutcomes : OptimizeIndexes(r, o)
    \/ \E r \in Solo : EntityCall(r)
    \/ \E r \in Solo, e \in {"organizations", "employees", "terminals"}, o \in SyncOutcomes :
            EntityReturn(r, e, o)

Spec == Init /\ [][Next]_vars

(***************************************************************************)
(* Scheduling.  The event loop resumes a handler whose awaited call is     *)
(* over, and an awaited call returns or raises: a handler that can take a  *)
(* step takes one.  Requests and the clock are under no such obligation.   *)
(***************************************************************************)
HandlerStep(r) ==
    \/ AccountsCall(r)
    \/ \E o \in {Returned(ZeroResult), Raised} : AccountsReturn(r, o)
    \/ Begin(r)
    \/ WindowCall(r)
    \/ \E o \in SyncOutcomes : WindowReturn(r, o)
    \/ LoopExit(r)
    \/ \E o \in PostOutcomes : InvalidateCache(r, o)
    \/ \E o \in PostOutcomes : OptimizeIndexes(r, o)
    \/ EntityCall(r)
    \/ \E e \in {"organizations", "employees", "terminals"}, o \in SyncOutcomes :
            EntityReturn(r, e, o)

FairSpec == Spec /\ \A r \in Solo : WF_vars(HandlerStep(r))

(***************************************************************************)
(* Specification: two handlers at a time.  The handlers are coroutines of  *)
(* one event loop: while one awaits iiko_sync the loop runs the other.     *)
(* Both requests name the same range, from day 0 to day MaxDay.            *)
(***************************************************************************)
ConcurrentNext ==
    \/ \E r \in Procs, ep \in {"sync_sales", "sync_transactions"} :
            Request(r, ep, IsoStr(0, MinTime), IsoStr(MaxDay, MinTime))
    \/ \E r \in Procs : AccountsCall(r)
    \/ \E r \in Procs, o \in {Returned(ZeroResult), Raised} : AccountsReturn(r, o)
    \/ \E r \in Procs : Begin(r)
    \/ \E r \in Procs : WindowCall(r)
    \/ \E r \in Procs, o \in SyncOutcomes : WindowReturn(r, o)
    \/ \E r \in Procs : LoopExit(r)
    \/ \E r \in Procs, o \in PostOutcomes : InvalidateCache(r, o)
    \/ \E r \in Procs, o \in PostOutcomes : OptimizeIndexes(r, o)

ConcurrentSpec == Init /\ [][ConcurrentNext]_vars

(***************************************************************************)
(* The record normalizer (src/services/iiko/iiko_parser.py).               *)
(* Its functions are pure: each is an operator on Python values, and the   *)
(* parser specification applies them to arguments drawn from bounded sets. *)
(***************************************************************************)
MaxText == 4                     \* characters of a text argument
MaxList == 2                     \* elements of a list argument

SeqsUpTo(S, n) == UNION {[1 .. k -> S] : k \in 0 .. n}

\* ---- str ----
IsSpace(c) == c = " "

RECURSIVE LStrip(_)
LStrip(s) == IF s # <<>> /\ IsSpace(Head(s)) THEN LStrip(Tail(s)) ELSE s

RECURSIVE RStrip(_)
RStrip(s) ==
    IF s # <<>> /\ IsSpace(s[Len(s)]) THEN RStrip(SubSeq(s, 1, Len(s) - 1)) ELSE s

\* str.strip()
Strip(s) == RStrip(LStrip(s))

\* str.lower() on the letters of the model's alphabet
LowerChar(c) ==
    CASE c = "T" -> "t" [] c = "R" -> "r" [] c = "U" -> "u" [] c = "E" -> "e"
      [] c = "F" -> "f" [] OTHER -> c

Lower(s) == [i \in 1 .. Len(s) |-> LowerChar(s[i])]

\* ---- numbers ----
DigitChars == <<"0", "1", "2", "3", "4", "5", "6", "7", "8", "9">>

IsDigit(c) == \E i \in 1 .. Len(DigitChars) : DigitChars[i] = c

DigitOf(c) == (CHOOSE i \in 1 .. Len(DigitChars) : DigitChars[i] = c) - 1

RECURSIVE Pow10(_)
Pow10(k) == IF k = 0 THEN 1 ELSE 10 * Pow10(k - 1)

\* A float keeps no trailing zero among its fraction digits.
RECURSIVE Canon(_, _)
Canon(n, k) == IF k > 0 /\ n % 10 = 0 THEN Canon(n \div 10, k - 1) ELSE PyFloat(n, k)

\* isinstance(x, (int, float)): bool is a subclass of int.
IsNumber(v) == v.ty \in {"int", "float", "bool"}

\* float(x) of a number
ToFloat(v) ==
    CASE v.ty = "int" -> PyFloat(v.mant, 0)
      [] v.ty = "float" -> v
      [] v.ty = "bool" -> PyFloat(IF v.bv THEN 1 ELSE 0, 0)

\* float(x).is_integer()
IsInteger(v) == ToFloat(v).frac = 0

\* int(x) of a number
ToInt(v) == LET f == ToFloat(v) IN f.mant \div Pow10(f.frac)

RECURSIVE DigitsValue(_)
DigitsValue(s) ==
    IF s = <<>> THEN 0 ELSE 10 * DigitsValue(SubSeq(s, 1, Len(s) - 1)) + DigitOf(s[Len(s)])

AllDigits(s) == \A i \in 1 .. Len(s) : IsDigit(s[i])

Dots(s) == {i \in 1 .. Len(s) : s[i] = "."}

\* float(str) accepts, after stripping, digits with at most one point and at
\* least one digit; anything else is a ValueError.
IsFloatLiteral(s) ==
    LET b == Strip(s)
        core == SelectSeq(b, LAMBDA c : c # ".")
    IN  /\ core # <<>>
        /\ AllDigits(core)
        /\ Cardinality(Dots(b)) <= 1

FloatOf(s) ==
    LET b == Strip(s)
        core == SelectSeq(b, LAMBDA c : c # ".")
        k == IF Dots(b) = {} THEN 0 ELSE Len(b) - (CHOOSE i \in Dots(b) : TRUE)
    IN  Canon(DigitsValue(core), k)

\* ---- _extract_numeric_value (lines 30-49) ----
NumericKeysValueFirst == <<"value", "sum", "amount", "price", "average">>

NumericKeys == <<"sum", "value", "amount", "price", "average">>

RECURSIVE FirstNumeric(_, _)
FirstNumeric(d, i) ==
    IF i > Len(NumericKeys) THEN PyNone
    ELSE IF NumericKeys[i] \in DOMAIN d /\ IsNumber(d[NumericKeys[i]])
         THEN ToFloat(d[NumericKeys[i]])
         ELSE FirstNumeric(d, i + 1)

\* The mutation: float(value) of a text outside any try.
ExtractNumericValueNoTry(value) ==
    IF value.ty = "dict" THEN FirstNumeric(value.map, 1)
    ELSE IF IsNumber(value) THEN ToFloat(value)
    ELSE IF value.ty = "str"
         THEN IF IsFloatLiteral(value.chars) THEN FloatOf(value.chars)
              ELSE PyRaise("ValueError")
    ELSE PyNone

_extract_numeric_value(value) ==
    IF value.ty = "dict" THEN FirstNumeric(value.map, 1)
    ELSE IF IsNumber(value) THEN ToFloat(value)
    ELSE IF value.ty = "str"
         THEN IF IsFloatLiteral(value.chars) THEN FloatOf(value.chars) ELSE PyNone
    ELSE PyNone

\* Arguments: the sub-keys a vendor mapping may carry and what they may hold.
SubKeys == {"sum", "value", "amount", "price", "average", "foo"}
SubValues == {PyInt(1), PyFloat(25, 1), PyStr(<<"7">>), PyNone, PyBool(TRUE)}
Mappings == UNION {[K -> SubValues] : K \in SUBSET SubKeys}
NumericArgs ==
    {PyDict(f) : f \in Mappings}
        \cup {PyStr(x) : x \in SeqsUpTo({" ", "7", "0", ".", "x"}, MaxText)}
        \cup {PyNone, PyBool(TRUE), PyBool(FALSE), PyInt(7), PyFloat(25, 1),
              PyList(<<>>), PyList(<<PyInt(7)>>)}

\* A call of a pure function: the argument and what came back.  The caller
\* takes the result before it calls again.
Idle == fn = "none"

Call(f, a, o) ==
    /\ fn' = f
    /\ arg' = a
    /\ out' = o
    /\ UNCHANGED <<prev, source, store, clock, rvars>>

ExtractNumericValue ==
    /\ Idle
    /\ \E v \in NumericArgs : Call("_extract_numeric_value", v, _extract_numeric_value(v))

\* The caller has taken the result.
Discard ==
    /\ fn # "none"
    /\ fn' = "none"
    /\ arg' = PyNone
    /\ out' = PyNone
    /\ prev' = NoCall
    /\ UNCHANGED <<source, store, clock, rvars>>

\* ---- _parse_boolean (lines 13-19) ----
\* The mutation: the comparison minds the letter case.
TextIsTrueExact(s) == s = <<"t", "r", "u", "e">>

\* value.lower() == "true"
TextIsTrue(s) == Lower(s) = <<"t", "r", "u", "e">>

_parse_boolean(value) ==
    IF value.ty = "bool" THEN value.bv
    ELSE IF value.ty = "str" THEN TextIsTrue(value.chars)
    ELSE FALSE

BooleanArgs ==
    {PyStr(x) : x \in SeqsUpTo({"t", "T", "r", "u", "U", "e", "E", " "}, MaxText)}
        \cup {PyStr(<<"f", "a", "l", "s", "e">>), PyStr(<<"1">>)}
        \cup {PyNone, PyBool(TRUE), PyBool(FALSE), PyInt(0), PyInt(1), PyFloat(25, 1),
              PyDict(<<>>), PyList(<<>>), PyList(<<PyBool(TRUE)>>)}

ParseBoolean ==
    /\ Idle
    /\ \E v \in BooleanArgs : Call("_parse_boolean", v, PyBool(_parse_boolean(v)))

\* ---- _extract_fiscal_cheque_number (lines 57-81) ----
\* str(n) of an int
RECURSIVE IntText(_)
IntText(n) ==
    IF n < 10 THEN <<DigitChars[n + 1]>>
    ELSE Append(IntText(n \div 10), DigitChars[(n % 10) + 1])

\* the k fraction digits of a float
RECURSIVE FracText(_, _)
FracText(n, k) ==
    IF k = 0 THEN <<>> ELSE Append(FracText(n \div 10, k - 1), DigitChars[(n % 10) + 1])

\* str(x): of a float with its point, 7.0 as "7.0"; of the empty dict "{}"
StrOf(v) ==
    CASE v.ty = "str" -> v.chars
      [] v.ty = "int" -> IntText(v.mant)
      [] v.ty = "float" ->
            IntText(v.mant \div Pow10(v.frac)) \o <<".">>
                \o (IF v.frac = 0 THEN <<"0">> ELSE FracText(v.mant % Pow10(v.frac), v.frac))
      [] v.ty = "bool" -> IF v.bv THEN <<"T", "r", "u", "e">> ELSE <<"F", "a", "l", "s", "e">>
      [] v.ty = "dict" -> <<"{", "}">>

\* The mutation: the number's literal text, whole or not.
NumberTextLiteral(v) == StrOf(v)

\* str(int(value)) if float(value).is_integer() else str(value)
NumberText(v) == IF IsInteger(v) THEN IntText(ToInt(v)) ELSE StrOf(v)

\* The mutation: an element that is no number is rendered as it is.
ItemTextUnstripped(item) == IF IsNumber(item) THEN NumberText(item) ELSE StrOf(item)

\* lines 72-78: one element of a list
ItemText(item) == IF IsNumber(item) THEN NumberText(item) ELSE Strip(StrOf(item))

RECURSIVE Cleaned(_)
Cleaned(items) ==
    IF items = <<>> THEN <<>>
    ELSE IF Head(items) = PyNone THEN Cleaned(Tail(items))
    ELSE <<ItemText(Head(items))>> \o Cleaned(Tail(items))

\* ", ".join(cleaned)
RECURSIVE Join(_)
Join(texts) ==
    IF Len(texts) = 1 THEN texts[1]
    ELSE texts[1] \o <<",", " ">> \o Join(Tail(texts))

_extract_fiscal_cheque_number(value) ==
    IF value = PyNone THEN PyNone
    ELSE IF IsNumber(value) THEN PyStr(NumberText(value))
    ELSE IF value.ty = "str" THEN PyStr(Strip(value.chars))
    ELSE IF value.ty = "list"
         THEN IF Cleaned(value.items) # <<>> THEN PyStr(Join(Cleaned(value.items))) ELSE PyNone
    ELSE PyStr(Strip(StrOf(value)))

ChequeItems == {PyNone, PyInt(7), PyFloat(7, 0), PyFloat(25, 1), PyBool(TRUE),
                PyStr(<<"a">>), PyStr(<<" ", "a">>), PyStr(<<"a", " ">>), PyStr(<<>>)}

ChequeArgs ==
    {PyStr(x) : x \in SeqsUpTo({" ", "a", "7"}, MaxText)}
        \cup {PyList(x) : x \in SeqsUpTo(ChequeItems, MaxList)}
        \cup {PyNone, PyInt(19758), PyFloat(19758, 0), PyFloat(197585, 1), PyInt(0),
              PyFloat(5, 2), PyBool(TRUE), PyDict(<<>>)}

ExtractFiscalChequeNumber ==
    /\ Idle
    /\ \E v \in ChequeArgs :
            Call("_extract_fiscal_cheque_number", v, _extract_fiscal_cheque_number(v))

\* ---- parse_item_modifiers (lines 366-414) ----
\* bool(x): None, False, 0, "", [] and {} are falsy
Truthy(v) ==
    CASE v.ty = "None" -> FALSE
      [] v.ty = "bool" -> v.bv
      [] v.ty \in {"int", "float"} -> v.mant # 0
      [] v.ty = "str" -> v.chars # <<>>
      [] v.ty = "list" -> v.items # <<>>
      [] v.ty = "dict" -> DOMAIN v.map # {}

\* data.get(key, default)
DictGet(data, key, default) == IF key \in DOMAIN data.map THEN data.map[key] ELSE default

\* parsed_modifier; of its defaulted fields the model keeps deleted
ParsedModifier(mod_data, id, item, parent) ==
    PyDict([deleted |-> DictGet(mod_data, "deleted", PyBool(FALSE)),
            iiko_id |-> id,
            item_iiko_id |-> item,
            parent_modifier_iiko_id |-> parent])

RECURSIVE parse_modifier_recursive(_, _, _)
RECURSIVE ParseEach(_, _, _)

\* The mutation: a node without an id is left out but its children are parsed.
ParseModifierDescend(mod_data, parent_modifier_iiko_id, item_iiko_id) ==
    LET modifier_iiko_id == DictGet(mod_data, "modifier", PyNone)
        child_modifiers == DictGet(mod_data, "childModifiers", PyNone)
    IN  IF ~Truthy(modifier_iiko_id)
        THEN IF Truthy(child_modifiers)
             THEN ParseEach(child_modifiers.items, parent_modifier_iiko_id, item_iiko_id)
             ELSE <<>>
        ELSE <<ParsedModifier(mod_data, modifier_iiko_id, item_iiko_id, parent_modifier_iiko_id)>>
                \o (IF Truthy(child_modifiers)
                    THEN ParseEach(child_modifiers.items, modifier_iiko_id, item_iiko_id)
                    ELSE <<>>)

\* The mutation: the children are appended before their parent.
ParseModifierChildrenFirst(mod_data, parent_modifier_iiko_id, item_iiko_id) ==
    LET modifier_iiko_id == DictGet(mod_data, "modifier", PyNone)
        child_modifiers == DictGet(mod_data, "childModifiers", PyNone)
    IN  IF ~Truthy(modifier_iiko_id)
        THEN <<>>
        ELSE (IF Truthy(child_modifiers)
              THEN ParseEach(child_modifiers.items, modifier_iiko_id, item_iiko_id)
              ELSE <<>>)
                \o <<ParsedModifier(mod_data, modifier_iiko_id, item_iiko_id, parent_modifier_iiko_id)>>

\* What one call appends to parsed_modifiers, in order.
parse_modifier_recursive(mod_data, parent_modifier_iiko_id, item_iiko_id) ==
    LET modifier_iiko_id == DictGet(mod_data, "modifier", PyNone)
        child_modifiers == DictGet(mod_data, "childModifiers", PyNone)
    IN  IF ~Truthy(modifier_iiko_id)
        THEN <<>>
        ELSE <<ParsedModifier(mod_data, modifier_iiko_id, item_iiko_id, parent_modifier_iiko_id)>>
                \o (IF Truthy(child_modifiers)
                    THEN ParseEach(child_modifiers.items, modifier_iiko_id, item_iiko_id)
                    ELSE <<>>)

\* for child_mod in child_modifiers / for modifier in modifiers_data
ParseEach(modifiers, parent_modifier_iiko_id, item_iiko_id) ==
    IF modifiers = <<>> THEN <<>>
    ELSE parse_modifier_recursive(Head(modifiers), parent_modifier_iiko_id, item_iiko_id)
            \o ParseEach(Tail(modifiers), parent_modifier_iiko_id, item_iiko_id)

parse_item_modifiers(modifiers_data, item_iiko_id) ==
    IF ~Truthy(modifiers_data) THEN PyList(<<>>)
    ELSE PyList(ParseEach(modifiers_data.items, PyNone, item_iiko_id))

\* Arguments: trees three levels deep.
ModifierIds == {PyNone, PyStr(<<"a">>), PyStr(<<"b">>)}
ModifierNode(id, kids) == PyDict([modifier |-> id, childModifiers |-> PyList(kids)])

ModifierArgs ==
    LET Leaves == {PyDict([modifier |-> id]) : id \in ModifierIds} \cup {PyDict(<<>>)}
        Mids == {ModifierNode(id, kids) :
                    id \in ModifierIds, kids \in SeqsUpTo(Leaves, MaxList) \ {<<>>}}
        Tops == {ModifierNode(id, <<m>>) : id \in ModifierIds, m \in Mids}
                    \cup {ModifierNode(id, <<m, l>>) :
                                id \in ModifierIds, m \in Mids, l \in Leaves}
    IN  {PyList(<<n>>) : n \in Leaves \cup Mids \cup Tops}
            \cup {PyList(<<l, m>>) : l \in Leaves, m \in Mids}
            \cup {PyList(<<>>), PyNone}

ParseItemModifiers ==
    /\ Idle
    /\ \E v \in ModifierArgs : Call("parse_item_modifiers", v, parse_item_modifiers(v, PyStr(<<"i">>)))

\* ---- _safe_get (lines 22-27) ----
\* The mutation: a plain lookup.
SafeGetPlain(data, key, default) == DictGet(data, key, default)

_safe_get(data, key, default) ==
    LET value == DictGet(data, key, default)
    IN  IF value = PyDict(<<>>) THEN PyNone ELSE value

\* Arguments: raw records over two of the vendor's dotted keys.
RawKeys == {"ItemSaleEvent.Id", "Department.Id"}
RawValues == {PyDict(<<>>), PyNone, PyStr(<<"a">>), PyInt(7), PyList(<<>>),
              PyDict([foo |-> PyInt(1)])}
RawRecords == {PyDict(f) : f \in UNION {[K -> RawValues] : K \in SUBSET RawKeys}}

\* Every call site passes no default (lines 727-857, 907-950).
SafeGet ==
    /\ Idle
    /\ \E data \in RawRecords, key \in RawKeys :
            Call("_safe_get", [ty |-> "args", key |-> key, record |-> data],
                 _safe_get(data, key, PyNone))

ParserNext ==
    \/ ExtractNumericValue
    \/ ParseBoolean
    \/ ExtractFiscalChequeNumber
    \/ ParseItemModifiers
    \/ SafeGet
    \/ Discard

ParserSpec == Init /\ [][ParserNext]_vars

(***************************************************************************)
(* The list normalizers of IikoParser.  Each walks the raw records in      *)
(* order and builds one canonical record per raw record; no statement of   *)
(* the loop is inside a try, so an exception raised for one record leaves  *)
(* the function.  Of the canonical record's fields the model keeps one of  *)
(* each way the code fills them.                                           *)
(***************************************************************************)
Raises(o) == o.ty = "raise"

\* datetime.now()
Now == [ty |-> "datetime", at |-> clock]

\* The mutation: each record is put in front of the ones before it.
CollectReversed(outs) ==
    LET bad == {i \in 1 .. Len(outs) : Raises(outs[i])}
    IN  IF bad = {} THEN PyList([i \in 1 .. Len(outs) |-> outs[Len(outs) + 1 - i]])
        ELSE outs[CHOOSE i \in bad : \A j \in bad : i <= j]

\* for x in data: parsed.append(...), then return parsed.  outs holds what
\* building each record gives: the first exception leaves the function.
Collect(outs) ==
    LET bad == {i \in 1 .. Len(outs) : Raises(outs[i])}
    IN  IF bad = {} THEN PyList(outs)
        ELSE outs[CHOOSE i \in bad : \A j \in bad : i <= j]

\* parse_organizations (lines 87-106)
ParsedOrg(org) ==
    IF org.ty # "dict" THEN PyRaise("AttributeError")
    ELSE PyDict([iiko_id |-> DictGet(org, "id", PyNone),
                 name |-> DictGet(org, "name", PyNone),
                 code |-> DictGet(org, "code", PyStr(<<>>)),
                 is_active |-> PyBool(TRUE),
                 created_at |-> Now,
                 updated_at |-> Now])

parse_organizations(data) ==
    IF ~Truthy(data) THEN PyList(<<>>)
    ELSE Collect([i \in 1 .. Len(data.items) |-> ParsedOrg(data.items[i])])

\* parse_sales (lines 897-1277)
ParsedSale(sale) ==
    IF sale.ty # "dict" THEN PyRaise("AttributeError")
    ELSE PyDict([item_sale_event_id |-> _safe_get(sale, "ItemSaleEvent.Id", PyNone),
                 department |-> DictGet(sale, "Department", PyNone),
                 vat_sum |-> _extract_numeric_value(DictGet(sale, "VAT.Sum", PyNone)),
                 fiscal_cheque_number |->
                     _extract_fiscal_cheque_number(DictGet(sale, "FiscalChequeNumber", PyNone))])

parse_sales(data) ==
    IF ~Truthy(data) THEN PyList(<<>>)
    ELSE Collect([i \in 1 .. Len(data.items) |-> ParsedSale(data.items[i])])

\* parse_transactions (lines 717-895)
ParsedTransaction(transaction) ==
    IF transaction.ty # "dict" THEN PyRaise("AttributeError")
    ELSE PyDict([iiko_id |-> _safe_get(transaction, "Id", PyNone),
                 amount |-> DictGet(transaction, "Amount", PyNone),
                 sum_resigned |->
                     _extract_numeric_value(DictGet(transaction, "Sum.ResignedSum", PyNone))])

parse_transactions(data) ==
    IF ~Truthy(data) THEN PyList(<<>>)
    ELSE Collect([i \in 1 .. Len(data.items) |-> ParsedTransaction(data.items[i])])

\* parse_items_cloud (lines 188-250): the price comes from sizePrices[0]
ItemPrice(item) ==
    LET sizePrices == DictGet(item, "sizePrices", PyNone)
    IN  IF ~Truthy(sizePrices) THEN PyInt(0)
        ELSE IF sizePrices.ty \in {"int", "float", "bool"} THEN PyRaise("TypeError")
        ELSE IF sizePrices.ty = "dict" THEN PyRaise("KeyError")
        ELSE IF sizePrices.ty = "str" \/ sizePrices.items[1].ty # "dict"
             THEN PyRaise("AttributeError")
        ELSE LET price_data == DictGet(sizePrices.items[1], "price", PyDict(<<>>))
             IN  IF price_data.ty # "dict" THEN PyRaise("AttributeError")
                 ELSE DictGet(price_data, "currentPrice", PyInt(0))

ParsedItem(item, organization_id) ==
    IF item.ty # "dict" THEN PyRaise("AttributeError")
    ELSE IF Raises(ItemPrice(item)) THEN ItemPrice(item)
    ELSE PyDict([iiko_id |-> DictGet(item, "id", PyNone),
                 created_at |-> Now,
                 updated_at |-> Now,
                 price |-> ItemPrice(item),
                 organization_id |-> organization_id])

parse_items_cloud(data, organization_id) ==
    IF ~Truthy(data) THEN PyList(<<>>)
    ELSE Collect([i \in 1 .. Len(data.items) |-> ParsedItem(data.items[i], organization_id)])

Normalizers == {"parse_organizations", "parse_sales", "parse_transactions", "parse_items_cloud"}

Normalize(f, data) ==
    CASE f = "parse_organizations" -> parse_organizations(data)
      [] f = "parse_sales" -> parse_sales(data)
      [] f = "parse_transactions" -> parse_transactions(data)
      [] f = "parse_items_cloud" -> parse_items_cloud(data, PyInt(1))

\* Raw records: mappings of the shapes the vendor sends, and values that are
\* no mapping.
RawOrgs == {PyDict([id |-> PyStr(<<"a">>), name |-> PyStr(<<"b">>)]),
            PyDict([id |-> PyStr(<<"b">>), code |-> PyInt(7)]),
            PyDict(<<>>), PyNone, PyStr(<<"a">>)}

RawSales == {PyDict(f) : f \in [{"ItemSaleEvent.Id"} -> {PyStr(<<"a">>), PyDict(<<>>)}]}
    \cup {PyDict(f) : f \in [{"ItemSaleEvent.Id", "VAT.Sum"} ->
                                {PyStr(<<"b">>), PyDict([sum |-> PyFloat(25, 1)])}]}
    \cup {PyDict([FiscalChequeNumber |-> PyList(<<PyFloat(7, 0), PyNone>>)]),
          PyDict(<<>>), PyNone, PyInt(7)}

RawTransactions ==
    {PyDict(f) : f \in [{"Id", "Amount"} -> {PyStr(<<"a">>), PyDict(<<>>), PyList(<<PyInt(7)>>)}]}
        \cup {PyDict(f) : f \in [{"Sum.ResignedSum"} -> {PyStr(<<"7">>), PyDict([sum |-> PyInt(1)])}]}
        \cup {PyDict(<<>>), PyNone}

RawItems == {PyDict([id |-> PyStr(<<"a">>)]),
             PyDict([id |-> PyStr(<<"a">>), sizePrices |-> PyList(<<>>)]),
             PyDict([sizePrices |->
                        PyList(<<PyDict([price |-> PyDict([currentPrice |-> PyInt(150)])])>>)]),
             PyDict([sizePrices |-> PyList(<<PyDict(<<>>)>>)]),
             PyDict([sizePrices |-> PyList(<<PyDict([price |-> PyInt(150)])>>)]),
             PyDict([sizePrices |-> PyList(<<PyNone>>)]),
             PyDict([sizePrices |-> PyInt(5)]),
             PyNone}

ListsOf(records) == {PyList(x) : x \in SeqsUpTo(records, MaxList)} \cup {PyNone}

ParseOrganizations ==
    /\ Idle
    /\ \E data \in ListsOf(RawOrgs) : Call("parse_organizations", data, parse_organizations(data))

ParseSales ==
    /\ Idle
    /\ \E data \in ListsOf(RawSales) : Call("parse_sales", data, parse_sales(data))

ParseTransactions ==
    /\ Idle
    /\ \E data \in ListsOf(RawTransactions) :
            Call("parse_transactions", data, parse_transactions(data))

ParseItemsCloud ==
    /\ Idle
    /\ \E data \in ListsOf(RawItems) : Call("parse_items_cloud", data, Normalize("parse_items_cloud", data))

\* The same raw records are normalized once more, at the present time.
Repeat ==
    /\ fn \in Normalizers
    /\ prev = NoCall
    /\ prev' = [fn |-> fn, arg |-> arg, out |-> out]
    /\ out' = Normalize(fn, arg)
    /\ UNCHANGED <<fn, arg, source, store, clock, rvars>>

NormalizerNext ==
    \/ ParseOrganizations
    \/ ParseSales
    \/ ParseTransactions
    \/ ParseItemsCloud
    \/ Repeat
    \/ Tick
    \/ Discard

NormalizerSpec == Init /\ [][NormalizerNext]_vars

(***************************************************************************)
(* The store behind iiko_sync.sync_sales.  The router awaits               *)
(* iiko_sync.sync_sales(db, day_from, day_to) (line 503) and adds up the   *)
(* counts it returns; the fetch and the upsert are the collaborators'.     *)
(* A run over one day fetches the vendor's records of that day and upserts *)
(* them by their identity: a record whose identity has no row is created,  *)
(* any other is updated.  The store is a bag of identities so that a       *)
(* second row of one identity can be told from the first.                  *)
(***************************************************************************)
MaxRecords == 2                  \* identities the vendor hands out
RecordIds == 1 .. MaxRecords
MaxRows == 2                     \* rows of one identity the store can hold

\* fetch(entity_type, window): the vendor's records of the day.
Fetch(d) == source[d]

Rows(st, id) == IF id \in DOMAIN st THEN st[id] ELSE 0

\* The mutation: every record is inserted, whatever the store holds.
IsCreateAlways(st, id) == TRUE

\* upsert decides by identity: insert when the identity has no row.
IsCreate(st, id) == Rows(st, id) = 0

Upsert(st, batch) ==
    [id \in DOMAIN st \cup batch |->
        IF id \in batch /\ IsCreate(st, id) THEN Rows(st, id) + 1 ELSE Rows(st, id)]

UpsertCounts(st, batch) ==
    [created |-> Cardinality({id \in batch : IsCreate(st, id)}),
     updated |-> Cardinality({id \in batch : ~IsCreate(st, id)}),
     errors |-> 0,
     deleted |-> 0]

\* The argument of one per-day call: day_from, day_to of lines 498-499.
WindowArg(d) == [ty |-> "window",
                 day_from |-> Combine(d, MinTime),
                 day_to |-> Combine(d + 1, MinTime)]

\* The vendor's data of a day changes between two runs.
VendorChange(d, ids) ==
    /\ source[d] # ids
    /\ source' = [source EXCEPT ![d] = ids]
    /\ fn' = "vendor"
    /\ arg' = WindowArg(d)
    /\ out' = PyNone
    /\ prev' = [fn |-> fn, arg |-> arg, out |-> out]
    /\ UNCHANGED <<store, clock, rvars>>

\* One awaited iiko_sync.sync_sales(db, day_from, day_to) that returns.
SyncSalesRun(d) ==
    /\ \A id \in Fetch(d) : Rows(store, id) < MaxRows
    /\ store' = Upsert(store, Fetch(d))
    /\ fn' = "sync_sales"
    /\ arg' = WindowArg(d)
    /\ out' = [ty |-> "result", counts |-> UpsertCounts(store, Fetch(d))]
    /\ prev' = [fn |-> fn, arg |-> arg, out |-> out]
    /\ UNCHANGED <<source, clock, rvars>>

StoreNext ==
    \/ \E d \in Days, ids \in SUBSET RecordIds : VendorChange(d, ids)
    \/ \E d \in Days : SyncSalesRun(d)

StoreSpec == Init /\ [][StoreNext]_vars

(***************************************************************************)
(* Vocabulary of the properties                                            *)
(***************************************************************************)
Windowed(r) == endpoint[r] \in {"sync_sales", "sync_transactions"}
Composite(r) == endpoint[r] = "sync_organizations_employees_terminals"

\* The handler is past the parsing of its dates, which succeeded.
RangeParsed(r) ==
    /\ Windowed(r)
    /\ pc[r] \in {"loop", "window_wait", "invalidate", "optimize", "done"}
    /\ from_date[r].s = "iso"
    /\ to_date[r].s = "iso"

FromDay(r) == from_date[r].day
ToDay(r) == to_date[r].day
PlannedCount(r) == IF FromDay(r) < ToDay(r) THEN ToDay(r) - FromDay(r) ELSE 0

\* The one-day window that starts on day d.
DayWindow(d) == [day_from |-> DateTime(d, 0), day_to |-> DateTime(d + 1, 0)]

\* Sum of counter k over the calls of bag b that returned.
RECURSIVE SumOver(_, _, _)
SumOver(b, S, k) ==
    IF S = {} THEN 0
    ELSE LET o == CHOOSE x \in S : TRUE
         IN  (IF o.raised THEN 0 ELSE b[o] * Get(o.value, k)) + SumOver(b, S \ {o}, k)

SumReturned(b) ==
    [created |-> SumOver(b, DOMAIN b, "created"),
     updated |-> SumOver(b, DOMAIN b, "updated"),
     errors  |-> SumOver(b, DOMAIN b, "errors"),
     deleted |-> SumOver(b, DOMAIN b, "deleted")]

FailedWindows(r) == Count(results[r], Raised)

(***************************************************************************)
(* C1  Partial-failure isolation: when the per-window sync call of a       *)
(* window fails outright, the run still processes every later window,      *)
(* counts exactly one error for the failed window, and answers with the    *)
(* sums over the windows that did not fail.                                *)
(***************************************************************************)
C1_PartialFailureIsolation ==
    \A r \in Procs :
        (RangeParsed(r) /\ pc[r] = "done" /\ FailedWindows(r) > 0) =>
            /\ Len(calls[r]) = PlannedCount(r)
            /\ response[r] = SuccessResponse(
                   [SumReturned(results[r]) EXCEPT !.errors = @ + FailedWindows(r)])

(***************************************************************************)
(* C2  A run that has started processing windows ends only after the       *)
(* Finalizing step, with no window of the plan skipped, whatever           *)
(* per-window errors occurred.                                             *)
(***************************************************************************)
C2_AlwaysReachesFinalizing ==
    \A r \in Procs :
        (RangeParsed(r) /\ pc[r] = "done" /\ Len(calls[r]) > 0) =>
            /\ post[r].finalizing
            /\ Len(calls[r]) = PlannedCount(r)

C4_WindowPlanning ==
    \A r \in Procs :
        (RangeParsed(r) /\ FromDay(r) < ToDay(r)) =>
            /\ Len(calls[r]) <= ToDay(r) - FromDay(r)
            /\ \A i \in 1..Len(calls[r]) : calls[r][i] = DayWindow(FromDay(r) + i - 1)
            /\ \A i \in 1..(Len(calls[r]) - 1) : calls[r][i].day_to = calls[r][i + 1].day_from
            /\ post[r].finalizing => Len(calls[r]) = ToDay(r) - FromDay(r)

C4_Witness ==
    \E r \in Procs :
        /\ RangeParsed(r) /\ post[r].finalizing
        /\ to_date[r].tod = 1
        /\ Len(calls[r]) >= 3

(***************************************************************************)
(* C5  A zero-length or inverted range is not an error: no per-window      *)
(* sync call is made and the run answers success: true with all four       *)
(* counters 0.  A single-day range gives exactly one window.               *)
(***************************************************************************)
C5_EmptyRange ==
    \A r \in Procs :
        RangeParsed(r) =>
            /\ FromDay(r) >= ToDay(r) =>
                  /\ calls[r] = <<>>
                  /\ "window" \notin inflight[r]
                  /\ pc[r] = "done" => response[r] = SuccessResponse(ZeroResult)
            /\ (ToDay(r) = FromDay(r) + 1 /\ pc[r] \in {"invalidate", "optimize", "done"}) =>
                  calls[r] = <<DayWindow(FromDay(r))>>

C5_Witness ==
    \E r \in Procs :
        /\ RangeParsed(r) /\ pc[r] = "done"
        /\ FromDay(r) > ToDay(r)
        /\ response[r].success

(***************************************************************************)
(* C6  Result aggregation: every run starts from the zero result whatever  *)
(* an earlier run left, and the result, as accumulated and as returned on  *)
(* success, is the field-wise sum of the per-window results, a missing     *)
(* counter counting as 0.                                                  *)
(***************************************************************************)
C6_ResultAggregation ==
    \A r \in Procs :
        RangeParsed(r) =>
            /\ result[r] = SumReturned(results[r])
            /\ (pc[r] = "done" /\ response[r].success) =>
                  /\ response[r].data = SumReturned(results[r])
                  /\ DOMAIN response[r].data = Keys

C6_Witness ==
    \E r \in Procs :
        /\ RangeParsed(r) /\ pc[r] = "done" /\ response[r].success
        /\ \E o \in DOMAIN results[r] : ~o.raised /\ "deleted" \notin DOMAIN o.value
        /\ \E o \in DOMAIN results[r] : ~o.raised /\ Get(o.value, "deleted") > 0
        /\ response[r].data.created > 0

(***************************************************************************)
(* C7  Success status: the answer is success: false with data: null only   *)
(* for a fatal/configuration failure; a run in which some windows failed   *)
(* answers success: true with the four counters and a nonzero errors.      *)
(***************************************************************************)
ConfigurationFailure(r) == from_date[r].s # "iso" \/ to_date[r].s # "iso"

SomeWindowFailed(r) ==
    \E o \in DOMAIN results[r] : o.raised \/ Get(o.value, "errors") > 0

C7_SuccessStatus ==
    \A r \in Procs :
        (Windowed(r) /\ pc[r] = "done") =>
            /\ ~response[r].success => (response[r].data = Null /\ ConfigurationFailure(r))
            /\ SomeWindowFailed(r) =>
                  /\ response[r].success
                  /\ DOMAIN response[r].data = Keys
                  /\ response[r].data.errors > 0

(***************************************************************************)
(* C8  In the composite run the entity syncs are called in the order       *)
(* organizations, employees, terminals, each only after the previous one   *)
(* has returned, so at most one of them is in flight; the summary totals   *)
(* are the sums of the three results' created, updated and errors.         *)
(***************************************************************************)
RECURSIVE SumEntities(_, _, _)
SumEntities(rs, S, k) ==
    IF S = {} THEN 0
    ELSE LET e == CHOOSE x \in S : TRUE
         IN  Get(rs[e], k) + SumEntities(rs, S \ {e}, k)

C8_CompositeSequential ==
    \A r \in Procs :
        Composite(r) =>
            /\ Cardinality(inflight[r]) <= 1
            /\ Len(started[r]) <= Len(EntityOrder)
            /\ \A i \in 1..Len(started[r]) : started[r][i] = EntityOrder[i]
            /\ \A i \in 1..(Len(started[r]) - 1) :
                  started[r][i] \in DOMAIN ent_results[r] /\ started[r][i] \notin inflight[r]
            /\ (pc[r] = "done" /\ response[r].success) =>
                  LET rs == response[r].data.results
                      sm == response[r].data.summary
                  IN  /\ DOMAIN rs = {"organizations", "employees", "terminals"}
                      /\ sm.total_created = SumEntities(rs, DOMAIN rs, "created")
                      /\ sm.total_updated = SumEntities(rs, DOMAIN rs, "updated")
                      /\ sm.total_errors = SumEntities(rs, DOMAIN rs, "errors")

C8_Witness ==
    \E r \in Procs :
        /\ Composite(r) /\ pc[r] = "done" /\ response[r].success
        /\ response[r].data.summary.total_created > 0
        /\ response[r].data.summary.total_errors > 0

(***************************************************************************)
(* C9  A from_date or to_date that cannot be parsed aborts the run before  *)
(* any window: no per-window sync call is made, the steps after the loop   *)
(* are not run, and the answer is success: false with data: null.          *)
(***************************************************************************)
C9_FatalBeforeWindows ==
    \A r \in Procs :
        (Windowed(r) /\ (from_date[r] = BadStr \/ to_date[r] = BadStr)) =>
            /\ calls[r] = <<>>
            /\ "window" \notin inflight[r]
            /\ ~post[r].finalizing
            /\ pc[r] \notin {"loop", "window_wait", "invalidate", "optimize"}
            /\ pc[r] = "done" => response[r] = FailureResponse

C9_Witness ==
    \E r \in Procs :
        /\ Windowed(r) /\ pc[r] = "done"
        /\ from_date[r].s = "iso" /\ to_date[r] = BadStr
        /\ response[r] = FailureResponse

(***************************************************************************)
(* C10  Default range: an omitted from_date becomes (today - 7 days) at    *)
(* 00:00 and an omitted to_date becomes today at 00:00, a given bound is   *)
(* kept as given; with both omitted the loop runs over exactly the 7       *)
(* one-day windows from today - 7 up to, and not including, today.         *)
(***************************************************************************)
BothOmitted(r) == req[r].from_date = NoneArg /\ req[r].to_date = NoneArg

SecondRun == fn = "sync_sales" /\ prev.fn = "sync_sales" /\ prev.arg = arg

NoDuplicateRows == \A id \in DOMAIN store : store[id] <= 1

C12_Order == <<"sum", "value", "amount", "price", "average">>

C12_Hits(d) == {i \in 1 .. Len(C12_Order) :
                    C12_Order[i] \in DOMAIN d /\ IsNumber(d[C12_Order[i]])}

C12_NumericOfMapping ==
    (fn = "_extract_numeric_value" /\ arg.ty = "dict") =>
        IF C12_Hits(arg.map) = {}
        THEN out = PyNone
        ELSE LET i == CHOOSE h \in C12_Hits(arg.map) : \A g \in C12_Hits(arg.map) : h <= g
             IN  out = ToFloat(arg.map[C12_Order[i]])

\* sum is present but holds a text, value and amount hold different numbers.
C12_Witness ==
    /\ fn = "_extract_numeric_value"
    /\ arg.ty = "dict"
    /\ {"sum", "value", "amount"} \subseteq DOMAIN arg.map
    /\ arg.map["sum"].ty = "str"
    /\ arg.map["value"] = PyFloat(25, 1)
    /\ arg.map["amount"] = PyInt(1)
    /\ out = PyFloat(25, 1)

\* No sub-key of the list, as in {} and {"foo": 1}.
C12_WitnessNoMatch ==
    /\ fn = "_extract_numeric_value"
    /\ arg = PyDict([foo |-> PyInt(1)])
    /\ out = PyNone

(***************************************************************************)
(* C13: boolean coercion.  A native boolean comes back unchanged; a text   *)
(* gives true exactly when it is the word true in any letter case; every   *)
(* other value gives false.  The result is always a boolean.               *)
(***************************************************************************)
C13_TrueWord == <<<<"t", "T">>, <<"r", "R">>, <<"u", "U">>, <<"e", "E">>>>

C13_IsTrueIgnoringCase(s) ==
    /\ Len(s) = Len(C13_TrueWord)
    /\ \A i \in 1 .. Len(s) : s[i] = C13_TrueWord[i][1] \/ s[i] = C13_TrueWord[i][2]

C13_BooleanCoercion ==
    fn = "_parse_boolean" =>
        /\ out.ty = "bool"
        /\ arg.ty = "bool" => out = arg
        /\ arg.ty = "str" => (out.bv <=> C13_IsTrueIgnoringCase(arg.chars))
        /\ arg.ty \notin {"bool", "str"} => out = PyBool(FALSE)

\* A text in mixed case that is the word true, and a truthy value that is no
\* text: the first gives true, the second false.
C13_Witness ==
    /\ fn = "_parse_boolean"
    /\ arg = PyStr(<<"T", "r", "U", "e">>)
    /\ out = PyBool(TRUE)

C13_WitnessOther ==
    /\ fn = "_parse_boolean"
    /\ arg = PyInt(1)
    /\ out = PyBool(FALSE)

(***************************************************************************)
(* C14: composite-identifier coercion.  Null gives null.  A number without *)
(* a fractional part gives its integer text (19758.0 gives "19758"), any   *)
(* other number its literal text.  A text is trimmed.  A sequence gives    *)
(* the scalar rule's texts of its non-null elements, in order, joined with *)
(* ", "; an empty or all-null sequence gives null.                         *)
(***************************************************************************)
\* x is s without the spaces around it
C14_Trimmed(s, x) ==
    /\ x = <<>> \/ (x[1] # " " /\ x[Len(x)] # " ")
    /\ \E i \in 0 .. Len(s) :
          /\ i + Len(x) <= Len(s)
          /\ x = SubSeq(s, i + 1, i + Len(x))
          /\ \A j \in (1 .. i) \cup ((i + Len(x) + 1) .. Len(s)) : s[j] = " "

\* x is the text of the number v
C14_TextOfNumber(v, x) ==
    IF ToFloat(v).frac = 0
    THEN AllDigits(x) /\ x # <<>> /\ DigitsValue(x) = ToFloat(v).mant
         /\ (Len(x) = 1 \/ x[1] # "0")
    ELSE Cardinality(Dots(x)) = 1 /\ IsFloatLiteral(x) /\ FloatOf(x) = ToFloat(v)

C14_NonNull(items) == SelectSeq(items, LAMBDA i : i # PyNone)

\* x is the texts of the elements, each followed by ", " but the last
RECURSIVE C14_Joined(_, _)
C14_Joined(items, x) ==
    LET first == _extract_fiscal_cheque_number(items[1]).chars
    IN  IF Len(items) = 1 THEN x = first
        ELSE /\ Len(x) >= Len(first) + 2
             /\ SubSeq(x, 1, Len(first)) = first
             /\ SubSeq(x, Len(first) + 1, Len(first) + 2) = <<",", " ">>
             /\ C14_Joined(Tail(items), SubSeq(x, Len(first) + 3, Len(x)))

C14_CompositeIdentifier ==
    fn = "_extract_fiscal_cheque_number" =>
        /\ arg = PyNone => out = PyNone
        /\ arg.ty \in {"int", "float"} => out.ty = "str" /\ C14_TextOfNumber(arg, out.chars)
        /\ arg.ty = "str" => out.ty = "str" /\ C14_Trimmed(arg.chars, out.chars)
        /\ arg.ty = "list" =>
              IF C14_NonNull(arg.items) = <<>>
              THEN out = PyNone
              ELSE out.ty = "str" /\ C14_Joined(C14_NonNull(arg.items), out.chars)

\* 19758.0 gives "19758".
C14_Witness ==
    /\ fn = "_extract_fiscal_cheque_number"
    /\ arg = PyFloat(19758, 0)
    /\ out = PyStr(<<"1", "9", "7", "5", "8">>)

\* [null, 7.0, " a"] style: a null element skipped, the others joined.
C14_WitnessSequence ==
    /\ fn = "_extract_fiscal_cheque_number"
    /\ arg = PyList(<<PyFloat(7, 0), PyStr(<<" ", "a">>)>>)
    /\ out = PyStr(<<"7", ",", " ", "a">>)

C14_WitnessAllNull ==
    /\ fn = "_extract_fiscal_cheque_number"
    /\ arg = PyList(<<PyNone, PyNone>>)
    /\ out = PyNone

(***************************************************************************)
(* C15: flattening the modifier tree drops every node without an external  *)
(* id together with its whole subtree, and leaves its siblings alone:      *)
(* every output tuple carries an id, and a node is in the output exactly   *)
(* when it and all of its ancestors have ids.  Nodes are counted by their  *)
(* place in the tree, so the output holds, for each id, as many tuples as  *)
(* there are such nodes with that id.                                      *)
(***************************************************************************)
C15_Children(node) ==
    IF "childModifiers" \in DOMAIN node.map /\ node.map["childModifiers"].ty = "list"
    THEN node.map["childModifiers"].items
    ELSE <<>>

C15_HasId(node) == "modifier" \in DOMAIN node.map /\ node.map["modifier"] # PyNone

\* The node reached from the roots by the child indices of path p.
RECURSIVE C15_NodeAt(_, _)
C15_NodeAt(roots, p) ==
    IF Len(p) = 1 THEN roots[p[1]]
    ELSE C15_NodeAt(C15_Children(roots[p[1]]), Tail(p))

RECURSIVE C15_IsPath(_, _)
C15_IsPath(roots, p) ==
    /\ p # <<>>
    /\ p[1] \in 1 .. Len(roots)
    /\ Len(p) = 1 \/ C15_IsPath(C15_Children(roots[p[1]]), Tail(p))

C15_Depth == 3

C15_Paths(roots) ==
    {p \in UNION {[1 .. k -> 1 .. MaxList + 1] : k \in 1 .. C15_Depth} : C15_IsPath(roots, p)}

\* The node at p and every ancestor of it has an id.
C15_Kept(roots, p) ==
    \A k \in 1 .. Len(p) : C15_HasId(C15_NodeAt(roots, SubSeq(p, 1, k)))

C15_SubtreePruning ==
    (fn = "parse_item_modifiers" /\ arg.ty = "list") =>
        /\ \A k \in 1 .. Len(out.items) : out.items[k].map["iiko_id"] # PyNone
        /\ \A id \in ModifierIds \ {PyNone} :
              Cardinality({k \in 1 .. Len(out.items) : out.items[k].map["iiko_id"] = id})
                = Cardinality({p \in C15_Paths(arg.items) :
                                  C15_Kept(arg.items, p) /\ C15_NodeAt(arg.items, p).map["modifier"] = id})

\* A root with an id whose first child has none but has children with ids,
\* and whose second child has an id: the output is the root and that sibling.
C15_Witness ==
    /\ fn = "parse_item_modifiers"
    /\ arg = PyList(<<ModifierNode(PyStr(<<"a">>),
                        <<ModifierNode(PyNone, <<PyDict([modifier |-> PyStr(<<"b">>)])>>),
                          PyDict([modifier |-> PyStr(<<"b">>)])>>)>>)
    /\ Len(out.items) = 2
    /\ out.items[2].map["iiko_id"] = PyStr(<<"b">>)

(***************************************************************************)
(* C16: safe-get.  Looking up a key whose value is the empty mapping {}    *)
(* gives what looking up an absent key gives, and both give null; any      *)
(* other value comes back as it is.                                        *)
(***************************************************************************)
C16_Absent == arg.key \notin DOMAIN arg.record.map

C16_EmptyMapping == arg.key \in DOMAIN arg.record.map /\ DOMAIN arg.record.map[arg.key].map = {}

C16_SafeGet ==
    fn = "_safe_get" =>
        IF C16_Absent THEN out = PyNone
        ELSE IF arg.record.map[arg.key].ty = "dict" /\ C16_EmptyMapping THEN out = PyNone
        ELSE out = arg.record.map[arg.key]

\* The key holds {} while the record's other key holds a value.
C16_Witness ==
    /\ fn = "_safe_get"
    /\ arg.key = "ItemSaleEvent.Id"
    /\ arg.record = PyDict([k \in RawKeys |->
                        IF k = "ItemSaleEvent.Id" THEN PyDict(<<>>) ELSE PyStr(<<"a">>)])
    /\ out = PyNone

(***************************************************************************)
(* C17: the normalizer is total.  For a raw record of any shape, missing   *)
(* keys, values of unexpected types or a record that is no mapping, the    *)
(* normalization never raises and yields a canonical record.               *)
(***************************************************************************)
C17_NormalizerTotal ==
    fn \in Normalizers => (~Raises(out) /\ out.ty = "list")

(***************************************************************************)
(* C18: the normalizer is referentially transparent.  Normalizing the same *)
(* raw records twice, at any two moments, yields equal canonical records:  *)
(* the output depends on the raw records only, not on the clock.           *)
(***************************************************************************)
Repeated == fn \in Normalizers /\ prev.fn = fn /\ prev.arg = arg

C18_ReferentiallyTransparent == Repeated => out = prev.out

(***************************************************************************)
(* C20: a normalization failure on one record is that record's alone.  The *)
(* other records of the batch are still normalized: the sales normalizer   *)
(* returns, in order, the canonical record of every raw record that can be *)
(* normalized.                                                             *)
(***************************************************************************)
C20_Normalizable(items) == SelectSeq(items, LAMBDA x : ~Raises(ParsedSale(x)))

C20_PerRecordIsolation ==
    (fn = "parse_sales" /\ arg.ty = "list") =>
        /\ out.ty = "list"
        /\ out.items = [i \in 1 .. Len(C20_Normalizable(arg.items)) |->
                            ParsedSale(C20_Normalizable(arg.items)[i])]

(***************************************************************************)
(* C19: windows are processed strictly one at a time, in chronological     *)
(* order.  At most one window call is in flight; the call for the next     *)
(* window is issued only after the call for the window before it has       *)
(* returned and its counts are in the result; and the start dates of the   *)
(* issued windows are strictly increasing.                                 *)
(***************************************************************************)
RECURSIVE C19_Size(_, _)
C19_Size(b, S) ==
    IF S = {} THEN 0
    ELSE LET o == CHOOSE x \in S : TRUE IN b[o] + C19_Size(b, S \ {o})

\* The calls that have come back, by returning or by raising.
C19_Back(r) == C19_Size(results[r], DOMAIN results[r])

C19_InFlight(r) == Len(calls[r]) - C19_Back(r)

C19_OneWindowAtATime ==
    /\ [](\A r \in Procs : Windowed(r) =>
            /\ C19_InFlight(r) \in {0, 1}
            /\ C19_InFlight(r) = 1 <=> pc[r] = "window_wait"
            /\ \A i \in 1 .. Len(calls[r]) - 1 :
                  \/ calls[r][i].day_from.day < calls[r][i + 1].day_from.day
                  \/ /\ calls[r][i].day_from.day = calls[r][i + 1].day_from.day
                     /\ calls[r][i].day_from.tod < calls[r][i + 1].day_from.tod)
    /\ [][\A r \in Procs :
            (Windowed(r) /\ Len(calls'[r]) = Len(calls[r]) + 1) =>
                /\ C19_InFlight(r) = 0
                /\ FailedWindows(r) = 0
                /\ result[r] = SumReturned(results[r])]_vars

\* The third window is in flight, the first two have returned.
C19_Witness ==
    \E r \in Procs :
        /\ Windowed(r)
        /\ pc[r] = "window_wait"
        /\ Len(calls[r]) = 3
        /\ C19_Back(r) = 2

(***************************************************************************)
(* C21: every canonical record is flat.  Each field of a record that the   *)
(* sales or the transactions normalizer returns holds a scalar (number,    *)
(* text, boolean, timestamp) or null, never a mapping or a sequence,       *)
(* whatever the shapes of the raw record's values.                         *)
(***************************************************************************)
C21_Scalar(v) == v.ty \in {"None", "bool", "int", "float", "str", "datetime"}

C21_FlatRecords ==
    (fn \in {"parse_sales", "parse_transactions"} /\ out.ty = "list") =>
        \A i \in 1 .. Len(out.items) :
            \A k \in DOMAIN out.items[i].map : C21_Scalar(out.items[i].map[k])

(***************************************************************************)
(* C22: flattening the modifier tree emits the tuples in pre-order: a node *)
(* before its children, the children in their given order, a whole         *)
(* subtree before the next sibling.  A top-level node gets the parent id   *)
(* null and every other node the id of its direct parent, so every         *)
(* non-null parent id of the output is the id of an earlier tuple.         *)
(***************************************************************************)
\* Pre-order of two places in the tree: p is an ancestor of q, or p turns
\* to an earlier child where the two part.
C22_Before(p, q) ==
    \E k \in 1 .. Len(q) :
        /\ \A j \in 1 .. k - 1 : j <= Len(p) /\ p[j] = q[j]
        /\ Len(p) = k - 1 \/ (Len(p) >= k /\ p[k] < q[k])

C22_KeptPaths(roots) == {p \in C15_Paths(roots) : C15_Kept(roots, p)}

\* The place of the k-th tuple: the kept node that k - 1 kept nodes precede.
C22_Place(roots, k) ==
    CHOOSE p \in C22_KeptPaths(roots) :
        Cardinality({q \in C22_KeptPaths(roots) : C22_Before(q, p)}) = k - 1

C22_PreOrder ==
    (fn = "parse_item_modifiers" /\ arg.ty = "list") =>
        /\ Len(out.items) = Cardinality(C22_KeptPaths(arg.items))
        /\ \A k \in 1 .. Len(out.items) :
              LET p == C22_Place(arg.items, k)
                  t == out.items[k].map
              IN  /\ t["iiko_id"] = C15_NodeAt(arg.items, p).map["modifier"]
                  /\ t["parent_modifier_iiko_id"] =
                        IF Len(p) = 1 THEN PyNone
                        ELSE C15_NodeAt(arg.items, SubSeq(p, 1, Len(p) - 1)).map["modifier"]
                  /\ t["parent_modifier_iiko_id"] # PyNone =>
                        \E j \in 1 .. k - 1 :
                            out.items[j].map["iiko_id"] = t["parent_modifier_iiko_id"]

\* A root a with a child b that has a child a, then a second child b: the
\* grandchild comes before the second child.
C22_Witness ==
    /\ fn = "parse_item_modifiers"
    /\ arg = PyList(<<ModifierNode(PyStr(<<"a">>),
                        <<ModifierNode(PyStr(<<"b">>), <<PyDict([modifier |-> PyStr(<<"a">>)])>>),
                          PyDict([modifier |-> PyStr(<<"b">>)])>>)>>)
    /\ [k \in 1 .. Len(out.items) |-> out.items[k].map["iiko_id"]]
            = <<PyStr(<<"a">>), PyStr(<<"b">>), PyStr(<<"a">>), PyStr(<<"b">>)>>
    /\ [k \in 1 .. Len(out.items) |-> out.items[k].map["parent_modifier_iiko_id"]]
            = <<PyNone, PyStr(<<"a">>), PyStr(<<"b">>), PyStr(<<"a">>)>>

(***************************************************************************)
(* C23: numeric coercion dispatches on the shape of its argument and never *)
(* raises.  A number comes back as that number, a text as the number it    *)
(* spells or as null when it spells none, and a value of any other shape   *)
(* (null, a sequence) as null.                                             *)
(***************************************************************************)
\* The text s is a numeral whose whole part ends at its i-th character:
\* blanks around it only, digits with at most one point among them.
C23_Numeral(s, i) ==
    LET b == Strip(s)
        whole == SubSeq(b, 1, i)
        rest == SubSeq(b, i + 1, Len(b))
    IN  /\ i <= Len(b)
        /\ rest = <<>> \/ Head(rest) = "."
        /\ AllDigits(whole)
        /\ rest # <<>> => AllDigits(Tail(rest))
        /\ whole # <<>> \/ Len(rest) > 1

\* The number x is the decimal value of that numeral.
C23_Spells(s, i, x) ==
    LET b == Strip(s)
        digits == SubSeq(b, i + 2, Len(b))
    IN  /\ C23_Numeral(s, i)
        /\ x.ty = "float"
        /\ DigitsValue(SubSeq(b, 1, i) \o digits) * Pow10(x.frac)
                = x.mant * Pow10(Len(digits))

C23_WitnessText ==
    /\ fn = "_extract_numeric_value"
    /\ arg = PyStr(<<" ", "0", ".", "7">>)
    /\ out = PyFloat(7, 1)

(***************************************************************************)
(* C29: the sales and the transactions normalizers preserve count and      *)
(* order.  For n raw records that are mappings the output has exactly n    *)
(* canonical records and the i-th of them is derived from the i-th raw     *)
(* record alone: it is what normalizing that record by itself gives.  An   *)
(* empty or null input gives the empty sequence.                           *)
(***************************************************************************)
C29_Mappings(data) ==
    data.ty = "list" /\ \A i \in 1 .. Len(data.items) : data.items[i].ty = "dict"

C29_CountAndOrder ==
    fn \in {"parse_sales", "parse_transactions"} =>
        /\ (arg = PyNone \/ arg = PyList(<<>>)) => out = PyList(<<>>)
        /\ C29_Mappings(arg) =>
              /\ out.ty = "list"
              /\ Len(out.items) = Len(arg.items)
              /\ \A i \in 1 .. Len(arg.items) :
                    PyList(<<out.items[i]>>) = Normalize(fn, PyList(<<arg.items[i]>>))

\* Two sales with different ids: two records, in the order of the sales.
C29_Witness ==
    /\ fn = "parse_sales"
    /\ C29_Mappings(arg)
    /\ Len(arg.items) = 2
    /\ Len(out.items) = 2
    /\ out.items[1].map["item_sale_event_id"] = PyStr(<<"a">>)
    /\ out.items[2].map["item_sale_event_id"] = PyStr(<<"b">>)

(***************************************************************************)
(* C30: composite-identifier coercion is idempotent.  Whenever it returns  *)
(* a text, for a scalar or for a sequence, applying it to that text        *)
(* returns the same text: every text it returns is already trimmed.        *)
(***************************************************************************)
C30_Idempotent ==
    (fn = "_extract_fiscal_cheque_number" /\ out.ty = "str") =>
        _extract_fiscal_cheque_number(out) = out

(***************************************************************************)
(* C30 as amended: the coercion is idempotent on every text it returns,    *)
(* except for a sequence with two or more non-null elements of which the   *)
(* last is a blank or empty text.  The text returned for such a sequence   *)
(* ends with the blank of the separator, and a second application removes  *)
(* that blank and nothing else.                                            *)
(***************************************************************************)
C30_EndsEmpty(value) ==
    /\ value.ty = "list"
    /\ LET given == SelectSeq(value.items, LAMBDA x : x # PyNone)
       IN  /\ Len(given) >= 2
           /\ given[Len(given)].ty = "str"
           /\ \A i \in 1 .. Len(given[Len(given)].chars) : given[Len(given)].chars[i] = " "

C30_IdempotentButAfterSeparator ==
    (fn = "_extract_fiscal_cheque_number" /\ out.ty = "str") =>
        IF C30_EndsEmpty(arg)
        THEN out.chars = _extract_fiscal_cheque_number(out).chars \o <<" ">>
        ELSE _extract_fiscal_cheque_number(out) = out

\* A sequence of two texts with blanks around them: the joined text is
\* trimmed already.
C30_Witness ==
    /\ fn = "_extract_fiscal_cheque_number"
    /\ arg = PyList(<<PyStr(<<" ", "a">>), PyStr(<<"a", " ">>)>>)
    /\ out = PyStr(<<"a", ",", " ", "a">>)
    /\ _extract_fiscal_cheque_number(out) = out

\* A sequence that ends with an empty text: the text ends with the separator.
C30_WitnessSeparator ==
    /\ fn = "_extract_fiscal_cheque_number"
    /\ arg = PyList(<<PyStr(<<"a">>), PyStr(<<>>)>>)
    /\ out = PyStr(<<"a", ",", " ">>)
    /\ _extract_fiscal_cheque_number(out) = PyStr(<<"a", ",">>)

(***************************************************************************)
(* C24: the shared authentication session is never used by two fetches at  *)
(* once, also when two sync requests (/sales and /transactions, or two     *)
(* /sales) are handled at the same time: over all the runs in progress at  *)
(* most one per-window sync call is in flight.                             *)
(***************************************************************************)
C24_WindowCallsInFlight == {r \in Procs : Windowed(r) /\ "window" \in inflight[r]}

C24_OneFetchAtATime == Cardinality(C24_WindowCallsInFlight) <= 1

(***************************************************************************)
(* C25: range coverage.  For a requested range with from <= to, when the   *)
(* run has processed its windows every instant of [from, to) lies in       *)
(* exactly one of them: the windows cover the whole requested range, also  *)
(* when from or to carry a time of day other than 00:00.                   *)
(***************************************************************************)
C25_Before(a, b) == a.day < b.day \/ (a.day = b.day /\ a.tod < b.tod)

C25_Instants == {DateTime(d, t) : d \in (0 - DefaultDays - 1) .. (MaxDay + 1), t \in TimesOfDay}

\* The processed windows that hold the instant x.
C25_WindowsOf(r, x) ==
    {i \in 1 .. Len(calls[r]) :
        ~C25_Before(x, calls[r][i].day_from) /\ C25_Before(x, calls[r][i].day_to)}

C26_AccountsAbsorbed ==
    \A r \in Procs :
        endpoint[r] = "sync_transactions" =>
            /\ pc[r] \notin {"accounts", "accounts_wait"} =>
                  post[r].accounts \in {"ok", "failed"} /\ "accounts" \notin inflight[r]
            /\ calls[r] # <<>> => post[r].accounts \in {"ok", "failed"}
            /\ pc[r] \in {"accounts", "accounts_wait"} =>
                  calls[r] = <<>> /\ response[r] = NoResponse
            /\ (pc[r] = "done" /\ from_date[r].s = "iso" /\ to_date[r].s = "iso") =>
                  IF FailedWindows(r) = 0
                  THEN /\ Len(calls[r]) = PlannedCount(r)
                       /\ response[r] = SuccessResponse(SumReturned(results[r]))
                  ELSE response[r] = FailureResponse

\* The accounts sync raised, the windows were processed and the answer is a
\* success with their counts.
C26_Witness ==
    \E r \in Procs :
        /\ endpoint[r] = "sync_transactions"
        /\ pc[r] = "done"
        /\ post[r].accounts = "failed"
        /\ Len(calls[r]) >= 2
        /\ response[r].success
        /\ response[r].data.created > 0

(***************************************************************************)
(* C27: in the composite run, when one entity sync raises, the entity      *)
(* syncs declared after it are never started and the request ends in an    *)
(* error response that carries none of the results obtained before; a      *)
(* success response is returned only when all three syncs have returned.   *)
(***************************************************************************)
C27_CompositeAllOrNothing ==
    \A r \in Procs :
        (Composite(r) /\ pc[r] = "done") =>
            /\ inflight[r] = {}
            /\ IF DOMAIN ent_results[r] = {"organizations", "employees", "terminals"}
               THEN /\ response[r].success
                    /\ response[r].data.results = ent_results[r]
               ELSE \* the sync started last raised
                    /\ response[r] = HttpError
                    /\ response[r].data = Null
                    /\ started[r] # <<>>
                    /\ DOMAIN ent_results[r] =
                            {started[r][i] : i \in 1 .. Len(started[r]) - 1}
                    /\ \A i \in 1 .. Len(started[r]) : started[r][i] = EntityOrder[i]

\* The employees sync raised after the organizations sync had returned: the
\* terminals sync was not started and the answer is the bare error.
C27_Witness ==
    \E r \in Procs :
        /\ Composite(r) /\ pc[r] = "done"
        /\ started[r] = <<"organizations", "employees">>
        /\ DOMAIN ent_results[r] = {"organizations"}
        /\ response[r] = HttpError

(***************************************************************************)
(* C28: every sales or transactions run terminates.  Provided each         *)
(* per-window sync call and each step after the loop returns or raises,    *)
(* the window loop ends after finitely many iterations, the current date   *)
(* moving by one day towards the end date at each, and the request gets    *)
(* its response.                                                           *)
(***************************************************************************)
C28_Running(r) == Windowed(r) /\ pc[r] \notin {"idle", "done"}

C28_Terminates ==
    /\ \A r \in Solo :
          C28_Running(r) ~> (pc[r] = "done" /\ response[r] # NoResponse)
    /\ [][\A r \in Procs :
            (pc[r] = "window_wait" /\ pc'[r] = "loop") =>
                /\ current_date'[r] = current_date[r] + 1
                /\ current_date'[r] <= end_date[r]]_vars

\* A run over the default range has ended, after its seven windows and the
\* steps that follow them.
C28_Witness ==
    \E r \in Procs :
        /\ endpoint[r] = "sync_sales" /\ BothOmitted(r)
        /\ pc[r] = "done"
        /\ Len(calls[r]) = DefaultDays
        /\ post[r].cache # "none" /\ post[r].optimize # "none"
        /\ response[r].kind = "json"

====
